---- MODULE Spec2Model ----
(***************************************************************************)
(* Model of builder.py: get_bandwidth (clustering scan, outlier trimming,  *)
(* reduction) and get_peak_performance.                                    *)
(*                                                                         *)
(* Numbers.  Python floats are modelled as exact rationals <<num, den>>    *)
(* in lowest terms with den > 0, so every comparison the code makes is     *)
(* decided as in real arithmetic (two deviations that are equal as reals   *)
(* are a tie here, whereas float rounding may order them either way; the   *)
(* number of clusters and of removed points does not depend on it).        *)
(* The core frequency is expressed in MHz                                  *)
(* (1e9 Hz = 1000 MHz), hence rates are in units of 1e6 B/s or 1e6 Ops/s.  *)
(* A benchmark dict is the sequence of its (int(key), value) items in      *)
(* insertion order.                                                        *)
(***************************************************************************)
EXTENDS Integers, Sequences, FiniteSets

VARIABLES call, benchmark, pc, bytes, bandwidth, clusters, idx, ci,
          points_to_remove, removed, entry_len, level_bandwidth,
          performance, peak_perf

vars == <<call, benchmark, pc, bytes, bandwidth, clusters, idx, ci,
          points_to_remove, removed, entry_len, level_bandwidth,
          performance, peak_perf>>

(* ------------------------------ bounds --------------------------------- *)

MaxLen == 6

MaxInvalidLen == 3

MaxArith == 3

(* ------------------------------ inputs --------------------------------- *)

frequency_hz == 1000

RECURSIVE Pow2(_)
Pow2(n) == IF n = 0 THEN 1 ELSE 2 * Pow2(n - 1)

BytesAt(i) == 64 * Pow2(i - 1)

(* A memory sweep doubles the transfer size at every point; the cycle count *)
(* of point i is a per-point factor times 2^(i-1), so that equal factors    *)
(* give equal rates.  Factors 10, 11, 13 give rates within 20% of their     *)
(* neighbour (10 and 13 are more than 20% apart), 400 a far lower plateau.  *)
ValidFactors == {10, 11, 13, 400}

InvalidFactors == {0, -10}

SweepsOver(factors, maxlen) ==
    UNION { { [i \in 1..n |-> <<BytesAt(i), fs[i] * Pow2(i - 1)>>] :
                fs \in [1..n -> factors] } : n \in 0..maxlen }

MemorySweeps ==
    SweepsOver(ValidFactors, MaxLen)
        \cup SweepsOver(ValidFactors \cup InvalidFactors, MaxInvalidLen)

ArithPoints == {<<100, 50>>, <<200, 90>>, <<400, 100>>, <<25, 0>>, <<50, -25>>}

ArithSweeps ==
    { s \in UNION { [1..n -> ArithPoints] : n \in 0..MaxArith } :
        \A i, j \in DOMAIN s : i # j => s[i][1] # s[j][1] }

(* ----------------------------- rationals ------------------------------- *)

Abs(x) == IF x < 0 THEN -x ELSE x

Max(a, b) == IF a > b THEN a ELSE b

Min(a, b) == IF a < b THEN a ELSE b

RECURSIVE GCD(_, _)
GCD(a, b) == IF b = 0 THEN a ELSE GCD(b, a % b)

Norm(n, d) ==
    LET g == GCD(Abs(n), Abs(d))
        s == IF d < 0 THEN -1 ELSE 1
    IN  <<(s * n) \div g, (s * d) \div g>>

QDiv(a, b) == Norm(a, b)

QMul(p, q) ==
    LET g == GCD(Abs(p[1]), q[2])
        h == GCD(Abs(q[1]), p[2])
    IN  Norm((p[1] \div g) * (q[1] \div h), (p[2] \div h) * (q[2] \div g))

QAdd(p, q) ==
    LET g == GCD(p[2], q[2])
    IN  Norm(p[1] * (q[2] \div g) + q[1] * (p[2] \div g), (p[2] \div g) * q[2])

QSub(p, q) ==
    LET g == GCD(p[2], q[2])
    IN  Norm(p[1] * (q[2] \div g) - q[1] * (p[2] \div g), (p[2] \div g) * q[2])

QAbs(p) == <<Abs(p[1]), p[2]>>

QLess(p, q) ==
    LET g == GCD(p[2], q[2])
    IN  p[1] * (q[2] \div g) < q[1] * (p[2] \div g)

QInt(n) == <<n, 1>>

Rate(size, cycles) == QMul(QInt(frequency_hz), QDiv(size, cycles))

RECURSIVE SumRates(_)
SumRates(c) ==
    IF c = <<>> THEN QInt(0) ELSE QAdd(c[1][2], SumRates(Tail(c)))

Average(c) == QMul(SumRates(c), <<1, Len(c)>>)

(* -------------------------- clustering pass ---------------------------- *)

CLUSTER_THRESHOLD == <<1, 5>>

(* variants of the definitions that follow them, used to test the properties *)
CloseToTenth(point, cluster) ==
    LET cluster_avg == Average(cluster)
    IN  QLess(QAbs(QSub(point[2], cluster_avg)), QMul(<<1, 10>>, cluster_avg))

CloseToLastPoint(point, cluster) ==
    LET last_rate == cluster[Len(cluster)][2]
    IN  QLess(QAbs(QSub(point[2], last_rate)), QMul(CLUSTER_THRESHOLD, last_rate))

CloseTo(point, cluster) ==
    LET cluster_avg == Average(cluster)
    IN  QLess(QAbs(QSub(point[2], cluster_avg)),
              QMul(CLUSTER_THRESHOLD, cluster_avg))

TooSmallBelowTwo(cluster) == Len(cluster) < 2

TooSmallNever(cluster) == FALSE

TooSmall(cluster) == Len(cluster) < 3

Last(s) == s[Len(s)]

Points == [k \in 1..Len(bytes) |-> <<bytes[k], bandwidth[k]>>]

SetLast(s, x) == [s EXCEPT ![Len(s)] = x]

BandwidthPoint(k) == Points[k]

(* ----------------------------- trimming -------------------------------- *)

PointsToRemoveRoundUp(n) == Max(1, Min((n + 1) \div 2, n - 1))

PointsToRemove(n) == Max(1, Min(n \div 2, n - 1))

DeviationSigned(cluster) ==
    [k \in 1..Len(cluster) |-> QSub(cluster[k][2], Average(cluster))]

Deviation(cluster) ==
    [k \in 1..Len(cluster) |-> QAbs(QSub(cluster[k][2], Average(cluster)))]

RECURSIVE ScanMax(_, _, _)
ScanMax(deviation, k, max_idx) ==
    IF k > Len(deviation) THEN max_idx
    ELSE IF max_idx = 0 \/ QLess(deviation[max_idx], deviation[k])
         THEN ScanMax(deviation, k + 1, k)
         ELSE ScanMax(deviation, k + 1, max_idx)

MaxDevIdx(cluster) == ScanMax(Deviation(cluster), 1, 0)

Pop(s, k) == [j \in 1..(Len(s) - 1) |-> IF j < k THEN s[j] ELSE s[j + 1]]

(* ---------------------------- peak search ------------------------------ *)

ListMaxLast(s) == s[Len(s)]

RECURSIVE ListMax(_)
ListMax(s) ==
    IF Len(s) = 1 THEN s[1]
    ELSE LET m == ListMax(SubSeq(s, 1, Len(s) - 1))
         IN  IF QLess(m, Last(s)) THEN Last(s) ELSE m

(* ------------------------------ states --------------------------------- *)

Init ==
    /\ call \in {"get_bandwidth", "get_peak_performance"}
    /\ benchmark \in (IF call = "get_bandwidth" THEN MemorySweeps ELSE ArithSweeps)
    /\ pc = "rates"
    /\ bytes = <<>>
    /\ bandwidth = <<>>
    /\ clusters = <<>>
    /\ idx = 0
    /\ ci = 0
    /\ points_to_remove = 0
    /\ removed = 0
    /\ entry_len = <<>>
    /\ level_bandwidth = <<>>
    /\ performance = <<>>
    /\ peak_perf = QInt(0)

HasZeroCycles == \E k \in DOMAIN benchmark : benchmark[k][2] = 0

(* lines 17-23: the three comprehensions and the initial cluster list *)
ComputeBandwidth ==
    /\ call = "get_bandwidth" /\ pc = "rates"
    /\ ~HasZeroCycles
    /\ bytes' = [k \in DOMAIN benchmark |-> benchmark[k][1]]
    /\ bandwidth' = [k \in DOMAIN benchmark |-> Rate(benchmark[k][1], benchmark[k][2])]
    /\ clusters' = << <<>> >>
    /\ idx' = 1
    /\ pc' = "cluster"
    /\ UNCHANGED <<call, benchmark, ci, points_to_remove, removed, entry_len,
                   level_bandwidth, performance, peak_perf>>

(* line 19: b / c with c = 0 *)
BandwidthDivisionByZero ==
    /\ call = "get_bandwidth" /\ pc = "rates"
    /\ HasZeroCycles
    /\ pc' = "ZeroDivisionError"
    /\ UNCHANGED <<call, benchmark, bytes, bandwidth, clusters, idx, ci,
                   points_to_remove, removed, entry_len, level_bandwidth,
                   performance, peak_perf>>

ScanUnchanged == UNCHANGED <<call, benchmark, pc, bytes, bandwidth, ci,
                             points_to_remove, removed, entry_len,
                             level_bandwidth, performance, peak_perf>>

(* lines 26-28 *)
ClusterFirst ==
    /\ pc = "cluster" /\ idx <= Len(bytes)
    /\ Len(Last(clusters)) = 0
    /\ clusters' = SetLast(clusters, Append(Last(clusters), BandwidthPoint(idx)))
    /\ idx' = idx + 1
    /\ ScanUnchanged

(* lines 30-34 *)
ClusterAppend ==
    /\ pc = "cluster" /\ idx <= Len(bytes)
    /\ Len(Last(clusters)) # 0
    /\ CloseTo(BandwidthPoint(idx), Last(clusters))
    /\ clusters' = SetLast(clusters, Append(Last(clusters), BandwidthPoint(idx)))
    /\ idx' = idx + 1
    /\ ScanUnchanged

ClusterOverwriteKeeps ==
    /\ pc = "cluster" /\ idx <= Len(bytes)
    /\ Len(clusters[Len(clusters)]) # 0
    /\ ~CloseTo(Points[idx], clusters[Len(clusters)])
    /\ TooSmall(clusters[Len(clusters)])
    /\ clusters' = Append(clusters, <<Points[idx]>>)
    /\ idx' = idx + 1
    /\ ScanUnchanged

(* lines 35-38 *)
ClusterOverwrite ==
    /\ pc = "cluster" /\ idx <= Len(bytes)
    /\ Len(Last(clusters)) # 0
    /\ ~CloseTo(BandwidthPoint(idx), Last(clusters))
    /\ TooSmall(Last(clusters))
    /\ clusters' = SetLast(clusters, <<BandwidthPoint(idx)>>)
    /\ idx' = idx + 1
    /\ ScanUnchanged

(* lines 35-40 *)
ClusterOpen ==
    /\ pc = "cluster" /\ idx <= Len(bytes)
    /\ Len(Last(clusters)) # 0
    /\ ~CloseTo(BandwidthPoint(idx), Last(clusters))
    /\ ~TooSmall(Last(clusters))
    /\ clusters' = Append(clusters, <<BandwidthPoint(idx)>>)
    /\ idx' = idx + 1
    /\ ScanUnchanged

(* line 24 exhausted, line 43 starts *)
ClusterDone ==
    /\ pc = "cluster" /\ idx > Len(bytes)
    /\ pc' = "trim"
    /\ ci' = 1
    /\ UNCHANGED <<call, benchmark, bytes, bandwidth, clusters, idx,
                   points_to_remove, removed, entry_len, level_bandwidth,
                   performance, peak_perf>>

(* lines 43-45: next cluster of the for loop, its len() and removal count *)
TrimBegin ==
    /\ pc = "trim" /\ ci <= Len(clusters)
    /\ entry_len' = Append(entry_len, Len(clusters[ci]))
    /\ points_to_remove' = PointsToRemove(Len(clusters[ci]))
    /\ removed' = 0
    /\ pc' = "pop"
    /\ UNCHANGED <<call, benchmark, bytes, bandwidth, clusters, idx, ci,
                   level_bandwidth, performance, peak_perf>>

(* lines 46-55: one iteration of the removal loop *)
TrimPop ==
    /\ pc = "pop" /\ removed < points_to_remove
    /\ Len(clusters[ci]) > 0
    /\ clusters' = [clusters EXCEPT ![ci] = Pop(@, MaxDevIdx(@))]
    /\ removed' = removed + 1
    /\ UNCHANGED <<call, benchmark, pc, bytes, bandwidth, idx, ci,
                   points_to_remove, entry_len, level_bandwidth,
                   performance, peak_perf>>

(* line 47: sum(()) / len(cluster) with an empty cluster *)
TrimDivisionByZero ==
    /\ pc = "pop" /\ removed < points_to_remove
    /\ Len(clusters[ci]) = 0
    /\ pc' = "ZeroDivisionError"
    /\ UNCHANGED <<call, benchmark, bytes, bandwidth, clusters, idx, ci,
                   points_to_remove, removed, entry_len, level_bandwidth,
                   performance, peak_perf>>

(* line 46 exhausted: back to line 43 *)
TrimNext ==
    /\ pc = "pop" /\ removed = points_to_remove
    /\ ci' = ci + 1
    /\ pc' = "trim"
    /\ UNCHANGED <<call, benchmark, bytes, bandwidth, clusters, idx,
                   points_to_remove, removed, entry_len, level_bandwidth,
                   performance, peak_perf>>

SomeClusterEmpty == \E k \in DOMAIN clusters : Len(clusters[k]) = 0

(* lines 57, 85 *)
Reduce ==
    /\ pc = "trim" /\ ci > Len(clusters)
    /\ ~SomeClusterEmpty
    /\ level_bandwidth' = [k \in DOMAIN clusters |-> Average(clusters[k])]
    /\ pc' = "done"
    /\ UNCHANGED <<call, benchmark, bytes, bandwidth, clusters, idx, ci,
                   points_to_remove, removed, entry_len, performance, peak_perf>>

(* line 57: sum(...) / len(c) with an empty c *)
ReduceDivisionByZero ==
    /\ pc = "trim" /\ ci > Len(clusters)
    /\ SomeClusterEmpty
    /\ pc' = "ZeroDivisionError"
    /\ UNCHANGED <<call, benchmark, bytes, bandwidth, clusters, idx, ci,
                   points_to_remove, removed, entry_len, level_bandwidth,
                   performance, peak_perf>>

(* lines 91-93 *)
ComputePerformance ==
    /\ call = "get_peak_performance" /\ pc = "rates"
    /\ ~HasZeroCycles
    /\ performance' = [k \in DOMAIN benchmark |-> Rate(benchmark[k][1], benchmark[k][2])]
    /\ pc' = "max"
    /\ UNCHANGED <<call, benchmark, bytes, bandwidth, clusters, idx, ci,
                   points_to_remove, removed, entry_len, level_bandwidth, peak_perf>>

(* line 93: o / c with c = 0 *)
PerformanceDivisionByZero ==
    /\ call = "get_peak_performance" /\ pc = "rates"
    /\ HasZeroCycles
    /\ pc' = "ZeroDivisionError"
    /\ UNCHANGED <<call, benchmark, bytes, bandwidth, clusters, idx, ci,
                   points_to_remove, removed, entry_len, level_bandwidth,
                   performance, peak_perf>>

(* lines 95, 114 *)
PeakMax ==
    /\ pc = "max" /\ Len(performance) > 0
    /\ peak_perf' = ListMax(performance)
    /\ pc' = "done"
    /\ UNCHANGED <<call, benchmark, bytes, bandwidth, clusters, idx, ci,
                   points_to_remove, removed, entry_len, level_bandwidth, performance>>

(* line 95: max() of an empty list *)
PeakMaxEmpty ==
    /\ pc = "max" /\ Len(performance) = 0
    /\ pc' = "ValueError"
    /\ UNCHANGED <<call, benchmark, bytes, bandwidth, clusters, idx, ci,
                   points_to_remove, removed, entry_len, level_bandwidth,
                   performance, peak_perf>>

Next ==
    \/ ComputeBandwidth
    \/ BandwidthDivisionByZero
    \/ ClusterFirst
    \/ ClusterAppend
    \/ ClusterOverwrite
    \/ ClusterOpen
    \/ ClusterDone
    \/ TrimBegin
    \/ TrimPop
    \/ TrimDivisionByZero
    \/ TrimNext
    \/ Reduce
    \/ ReduceDivisionByZero
    \/ ComputePerformance
    \/ PerformanceDivisionByZero
    \/ PeakMax
    \/ PeakMaxEmpty

Spec == Init /\ [][Next]_vars

TypeOK == pc \in {"rates", "cluster", "trim", "pop", "max", "done",
                  "ZeroDivisionError", "ValueError"}

(* ===================== properties of get_bandwidth ===================== *)

Errors == {"ZeroDivisionError", "ValueError"}

InBandwidth == call = "get_bandwidth"

Returned == InBandwidth /\ pc = "done"

(* |r - m| < 0.2 * m, that is m > 0 and 0.8 m < r < 1.2 m *)
Within20(r, m) ==
    LET g == GCD(r[2], m[2])
        a == r[1] * (m[2] \div g)
        b == m[1] * (r[2] \div g)
    IN  (b > 0) /\ (5 * a < 6 * b) /\ (5 * a > 4 * b)

(* |r - m| > 0.2 * m, that is m < 0, or m = 0 # r, or r outside [0.8 m, 1.2 m] *)
Beyond20(r, m) ==
    LET g == GCD(r[2], m[2])
        a == r[1] * (m[2] \div g)
        b == m[1] * (r[2] \div g)
    IN  (b < 0) \/ (b = 0 /\ a # 0) \/ (b > 0 /\ (5 * a > 6 * b \/ 5 * a < 4 * b))

RECURSIVE SumQ(_)
SumQ(rs) == IF rs = <<>> THEN <<0, 1>> ELSE QAdd(rs[1], SumQ(Tail(rs)))

(* mean of bandwidth[a..b] *)
MeanOf(a, b) == QMul(SumQ(SubSeq(bandwidth, a, b)), <<1, b - a + 1>>)

RECURSIVE SumSeq(_)
SumSeq(ns) == IF ns = <<>> THEN 0 ELSE ns[1] + SumSeq(Tail(ns))

PosOf(b) == CHOOSE k \in 1..Len(bytes) : bytes[k] = b

CycleFactorsOf(fs) == [i \in 1..Len(fs) |-> <<BytesAt(i), fs[i] * Pow2(i - 1)>>]

(* the clustering pass has ended and no cluster has been trimmed yet *)
ClusteringEnded == InBandwidth /\ pc = "trim" /\ ci = 1 /\ entry_len = <<>>

(* ---- C1 ---- *)

C1Sweep == <<<<64, 10>>, <<128, 20>>, <<256, 1600>>, <<512, 3200>>, <<1024, 6400>>>>

(* C1 as stated: the sweep 64:10, 128:20, 256:1600, 512:3200, 1024:6400 at   *)
(* 1e9 Hz (1000 MHz) returns the two values [6.4e9, 1.6e8] B/s.              *)
C1_AsStated ==
    (Returned /\ benchmark = C1Sweep) =>
        level_bandwidth = <<<<6400, 1>>, <<160, 1>>>>

(* C1 amended: for that sweep the 2-point cluster {64,128} is overwritten    *)
(* when 256 fails the 20% test, clustering ends with the single cluster      *)
(* {256,512,1024}, and exactly one value, 1.6e8 B/s, is returned.            *)
C1_OneLevel ==
    (InBandwidth /\ benchmark = C1Sweep) =>
        /\ pc \notin Errors
        /\ ClusteringEnded =>
              /\ Len(clusters) = 1
              /\ [k \in 1..Len(clusters[1]) |-> clusters[1][k][1]] = <<256, 512, 1024>>
        /\ pc = "done" => level_bandwidth = <<<<160, 1>>>>

C1_Witness == Returned /\ benchmark = C1Sweep /\ entry_len = <<3>>

(* ---- C2 ---- *)

StartSets == {S \in SUBSET (1..Len(bandwidth)) : 1 \in S}

RunEnd(S, s) ==
    IF \E x \in S : x > s
    THEN (CHOOSE x \in S : x > s /\ \A y \in S : y > s => x <= y) - 1
    ELSE Len(bandwidth)

NthStart(S, i) == CHOOSE s \in S : Cardinality({x \in S : x < s}) = i - 1

(* S is the set of first indices of consecutive plateaus of the sweep: each  *)
(* has at least 3 points, every later point of a plateau is within 20% of    *)
(* the mean of the plateau's points before it, and the first point after a   *)
(* plateau is more than 20% away from the plateau's mean.                    *)
IsPlateaus(S) ==
    \A s \in S :
        LET e == RunEnd(S, s)
        IN  /\ e - s + 1 >= 3
            /\ \A j \in (s + 1)..e : Within20(bandwidth[j], MeanOf(s, j - 1))
            /\ e < Len(bandwidth) => Beyond20(bandwidth[e + 1], MeanOf(s, e))

(* C2: a sweep made of k plateaus returns exactly k values, the i-th being   *)
(* the mean of points of the i-th plateau only, and the call does not fail.  *)
C2_OnePerPlateau ==
    /\ (InBandwidth /\ pc \in Errors /\ Len(bandwidth) > 0) =>
            ~ \E S \in StartSets : IsPlateaus(S)
    /\ Returned =>
          \A S \in StartSets : IsPlateaus(S) =>
              /\ Len(level_bandwidth) = Cardinality(S)
              /\ \A i \in 1..Len(level_bandwidth) :
                    LET s == NthStart(S, i)
                        e == RunEnd(S, s)
                    IN  /\ Len(clusters[i]) >= 1
                        /\ \A k \in 1..Len(clusters[i]) :
                              /\ PosOf(clusters[i][k][1]) \in s..e
                              /\ clusters[i][k] = Points[PosOf(clusters[i][k][1])]
                        /\ level_bandwidth[i] =
                              QMul(SumQ([k \in 1..Len(clusters[i]) |-> clusters[i][k][2]]),
                                   <<1, Len(clusters[i])>>)

C2_Witness ==
    /\ Returned
    /\ \E S \in StartSets : IsPlateaus(S) /\ Cardinality(S) = 2
    /\ \E j \in 1..Len(bandwidth) : bandwidth[j] # bandwidth[1] /\ j <= 3

(* ---- C3 ---- *)

RECURSIVE MaxRate(_)
MaxRate(rs) ==
    IF Len(rs) = 1 THEN rs[1]
    ELSE LET m == MaxRate(Tail(rs)) IN IF QLess(m, rs[1]) THEN rs[1] ELSE m

RECURSIVE MinRate(_)
MinRate(rs) ==
    IF Len(rs) = 1 THEN rs[1]
    ELSE LET m == MinRate(Tail(rs)) IN IF QLess(rs[1], m) THEN rs[1] ELSE m

(* |r - v| < 0.2 v for every rate r means max/1.2 < v < min/0.8; when such   *)
(* a v exists the middle of that interval is one.                            *)
MidValue ==
    QMul(QAdd(QMul(<<5, 6>>, MaxRate(bandwidth)), QMul(<<5, 4>>, MinRate(bandwidth))),
         <<1, 2>>)

AllNearOneValue ==
    /\ Len(bandwidth) >= 2
    /\ \A k \in 1..Len(bandwidth) : Within20(bandwidth[k], MidValue)

(* C3 as stated: when all rates are within 20% of one value the clustering   *)
(* pass ends with one cluster and one value is returned.                     *)
C3_AsStated ==
    (InBandwidth /\ AllNearOneValue) =>
        /\ pc \notin Errors
        /\ ClusteringEnded => Len(clusters) = 1
        /\ pc = "done" => Len(level_bandwidth) = 1

AllNearRunningMean ==
    /\ Len(bandwidth) >= 2
    /\ \A k \in 2..Len(bandwidth) : Within20(bandwidth[k], MeanOf(1, k - 1))

(* C3 amended: when every rate after the first is within 20% of the mean of  *)
(* all rates before it (in input order), the clustering pass ends with one   *)
(* cluster holding every point and exactly one value is returned.            *)
C3_RunningMean ==
    (InBandwidth /\ AllNearRunningMean) =>
        /\ pc \notin Errors
        /\ ClusteringEnded => clusters = <<Points>>
        /\ pc = "done" => Len(level_bandwidth) = 1

C3_Witness ==
    /\ Returned /\ AllNearRunningMean
    /\ Len(bandwidth) >= 4
    /\ Beyond20(MaxRate(bandwidth), MinRate(bandwidth))

(* ---- C4 ---- *)

(* C4 as stated: every returned value comes from a cluster that held at      *)
(* least 3 points when the clustering pass ended.                            *)
C4_AsStated ==
    Returned => \A k \in 1..Len(entry_len) : entry_len[k] >= 3

FailsSmallCluster ==
    /\ InBandwidth /\ pc = "cluster" /\ idx <= Len(bytes)
    /\ Len(Last(clusters)) \in 1..2
    /\ ~Within20(bandwidth[idx],
                 QMul(SumQ([k \in 1..Len(Last(clusters)) |-> Last(clusters)[k][2]]),
                      <<1, Len(Last(clusters))>>))

(* C4 amended: a point failing the 20% test against a current cluster of     *)
(* fewer than 3 points replaces that cluster's points; every returned value  *)
(* except the last comes from a cluster that held at least 3 points when     *)
(* the clustering pass ended, and the last from one that held at least 2.    *)
C4_SmallDiscarded ==
    /\ [][FailsSmallCluster =>
            /\ Len(clusters') = Len(clusters)
            /\ Last(clusters') = <<Points[idx]>>
            /\ \A k \in 1..(Len(clusters) - 1) : clusters'[k] = clusters[k]]_vars
    /\ [](ClusteringEnded =>
            \A k \in 1..(Len(clusters) - 1) : Len(clusters[k]) >= 3)
    /\ [](Returned =>
            /\ Len(level_bandwidth) = Len(entry_len)
            /\ \A k \in 1..(Len(entry_len) - 1) : entry_len[k] >= 3
            /\ Last(entry_len) >= 2)

C4_Witness ==
    /\ Returned
    /\ SumSeq(entry_len) < Len(bytes)
    /\ Len(entry_len) = 2 /\ entry_len[2] = 2

(* ---- C5 ---- *)

C5Removed(n) ==
    LET half == n \div 2
        most == IF half < n - 1 THEN half ELSE n - 1
    IN  IF most > 1 THEN most ELSE 1

TrimFinished(k) ==
    \/ k < ci
    \/ k = ci /\ pc = "pop" /\ removed = points_to_remove

(* C5: a cluster entering the trimming pass with n >= 2 points loses exactly *)
(* max(1, min(floor(n/2), n-1)) points, keeps at least one, and its reported *)
(* bandwidth is the mean of the surviving rates.                             *)
C5_TrimCount ==
    InBandwidth =>
        \A k \in 1..Len(entry_len) : entry_len[k] >= 2 =>
            /\ Len(clusters[k]) >= 1
            /\ (k = ci /\ pc = "pop") =>
                  /\ Len(clusters[k]) = entry_len[k] - removed
                  /\ removed <= C5Removed(entry_len[k])
            /\ TrimFinished(k) =>
                  Len(clusters[k]) = entry_len[k] - C5Removed(entry_len[k])
            /\ pc = "done" =>
                  level_bandwidth[k] =
                      QMul(SumQ([j \in 1..Len(clusters[k]) |-> clusters[k][j][2]]),
                           <<1, Len(clusters[k])>>)

C5_Witness ==
    /\ InBandwidth /\ pc = "pop" /\ removed = points_to_remove
    /\ entry_len[ci] >= 4 /\ removed >= 2

(* ---- C6 ---- *)

(* C6: for a non-empty sweep every cluster is non-empty once trimmed, and a  *)
(* one-point sweep returns that point's rate.                                *)
C6_NonEmptyAfterTrim ==
    (InBandwidth /\ Len(bytes) >= 1 /\ \A k \in 1..Len(benchmark) : benchmark[k][2] >= 1) =>
        /\ \A k \in 1..Len(entry_len) : TrimFinished(k) => Len(clusters[k]) >= 1
        /\ Len(bytes) = 1 => pc \notin Errors
        /\ (Len(bytes) = 1 /\ pc = "done") => level_bandwidth = <<bandwidth[1]>>

(* ---- C9 ---- *)

DevOf(c, j) ==
    LET m == QMul(SumQ([k \in 1..Len(c) |-> c[k][2]]), <<1, Len(c)>>)
        d == QSub(c[j][2], m)
    IN  <<Abs(d[1]), d[2]>>

Without(c, j) == SubSeq(c, 1, j - 1) \o SubSeq(c, j + 1, Len(c))

(* C9: a removal step takes out of the cluster being trimmed the earliest    *)
(* point whose deviation from the mean of the points still in the cluster    *)
(* is maximal, and leaves the other clusters as they are.                    *)
C9_RemovesMaxDeviation ==
    [][(InBandwidth /\ pc = "pop" /\ pc' = "pop" /\ removed' # removed) =>
          /\ \E j \in 1..Len(clusters[ci]) :
                /\ clusters'[ci] = Without(clusters[ci], j)
                /\ \A q \in 1..Len(clusters[ci]) :
                      ~QLess(DevOf(clusters[ci], j), DevOf(clusters[ci], q))
                /\ \A q \in 1..(j - 1) :
                      QLess(DevOf(clusters[ci], q), DevOf(clusters[ci], j))
          /\ Len(clusters') = Len(clusters)
          /\ \A k \in 1..Len(clusters) : k # ci => clusters'[k] = clusters[k]]_vars

C9_Witness ==
    /\ InBandwidth /\ pc = "pop" /\ removed = 2
    /\ Len(clusters) = 2 /\ ci = 1
    /\ \E j \in 1..Len(clusters[ci]) : clusters[ci][j][2] # clusters[ci][1][2]

(* ---- C10 ---- *)

IsRun(c) ==
    /\ Len(c) >= 1
    /\ LET a == PosOf(c[1][1])
       IN  /\ a + Len(c) - 1 <= Len(bytes)
           /\ c = SubSeq(Points, a, a + Len(c) - 1)

RunStart(c) == PosOf(c[1][1])

(* C10: after every step of the clustering scan the clusters are disjoint    *)
(* contiguous runs of the sweep in sweep order, all but the last hold at     *)
(* least 3 points, and a sweep of n >= 1 points gives at most (n+2) div 3    *)
(* clusters and returned values.                                             *)
C10_ContiguousRuns ==
    /\ (InBandwidth /\ (pc = "cluster" \/ ClusteringEnded) /\ idx >= 2) =>
          /\ \A k \in 1..Len(clusters) : IsRun(clusters[k])
          /\ \A k \in 1..(Len(clusters) - 1) :
                /\ Len(clusters[k]) >= 3
                /\ RunStart(clusters[k]) + Len(clusters[k]) <= RunStart(clusters[k + 1])
          /\ RunStart(Last(clusters)) + Len(Last(clusters)) = idx
          /\ 3 * Len(clusters) <= (idx - 1) + 2
    /\ (InBandwidth /\ Len(bytes) >= 1 /\ pc \notin {"rates", "cluster"}) =>
          /\ Len(clusters) <= (Len(bytes) + 2) \div 3
          /\ Len(level_bandwidth) <= (Len(bytes) + 2) \div 3

C10_Witness ==
    /\ InBandwidth /\ pc = "cluster" /\ Len(clusters) = 2
    /\ Len(clusters[2]) = 1 /\ RunStart(clusters[2]) > 4
    /\ idx = RunStart(clusters[2]) + 1

(* ================== properties of get_peak_performance ================= *)

InPeak == call = "get_peak_performance"

RECURSIVE Perms(_)
Perms(T) ==
    IF T = {} THEN {<<>>}
    ELSE UNION { { <<x>> \o p : p \in Perms(T \ {x}) } : x \in T }

Reordered(p) == [k \in 1..Len(p) |-> performance[p[k]]]

IsRateOf(r, point) == r[1] * point[2] = r[2] * frequency_hz * point[1]

C7Sweep == <<<<100, 50>>, <<200, 90>>, <<400, 100>>>>

(* C7: for a non-empty arithmetic sweep get_peak_performance returns the     *)
(* largest frequency_hz * ops / cycles, whatever the order of the points;    *)
(* 100:50, 200:90, 400:100 at 1e9 Hz (1000 MHz) gives 4e9 Ops/s.             *)
C7_PeakIsMax ==
    /\ (InPeak /\ pc \in Errors) =>
          (Len(benchmark) = 0 \/ \E k \in 1..Len(benchmark) : benchmark[k][2] = 0)
    /\ (InPeak /\ pc = "done") =>
          /\ \E k \in 1..Len(benchmark) : IsRateOf(peak_perf, benchmark[k])
          /\ \A k \in 1..Len(benchmark) :
                \E r \in {performance[k]} :
                    /\ IsRateOf(r, benchmark[k])
                    /\ r[1] * peak_perf[2] <= peak_perf[1] * r[2]
          /\ \A p \in Perms(1..Len(performance)) : ListMax(Reordered(p)) = peak_perf
          /\ (\E p \in Perms(1..3) : benchmark = [k \in 1..3 |-> C7Sweep[p[k]]]) =>
                peak_perf = <<4000, 1>>

C7_Witness ==
    /\ InPeak /\ pc = "done"
    /\ benchmark = <<C7Sweep[3], C7Sweep[1], C7Sweep[2]>>

(* ---- C8 ---- *)

InvalidSweep ==
    \/ Len(benchmark) = 0
    \/ \E k \in 1..Len(benchmark) : benchmark[k][2] <= 0

(* C8: an empty sweep or one with a cycle count <= 0 is rejected: the call   *)
(* never returns a bandwidth list or a peak-performance value.               *)
C8_InvalidRejected == InvalidSweep => pc # "done"

====
